---- MODULE Spec2Model ----
(***************************************************************************)
(* Model of the GitHub-integration core of gitauto                         *)
(* (src/services/github/github_manager.py).                                *)
(*                                                                         *)
(* Components:                                                             *)
(*   - the content mutation engine: commit_changes_to_remote_branch and    *)
(*     commit_multiple_changes_to_remote_branch, run by concurrent         *)
(*     writers against a remote content store with per-branch files;       *)
(*   - the ref resolver: get_latest_remote_commit_sha with the             *)
(*     empty-repository bootstrap initialize_repo;                         *)
(*   - the failure reporter: update_comment_for_raised_errors and          *)
(*     update_comment;                                                     *)
(*   - the credential broker: create_jwt and                               *)
(*     get_installation_access_token;                                      *)
(*   - the signature verifier: verify_webhook_signature;                   *)
(*   - the issue lister: get_oldest_unassigned_open_issue.                 *)
(*                                                                         *)
(* A text is a sequence of lines; Python's "" is the empty sequence.       *)
(***************************************************************************)
EXTENDS Integers, Sequences, FiniteSets, TLC

VARIABLES
    store,      \* remote content store: branch -> file path -> [exists, bytes]
    pc,         \* writer -> position inside commit_changes_to_remote_branch
    call,       \* writer -> arguments of the running call
    rd,         \* writer -> what the read step observed (target: the file on
                \*   the target branch at the time of the read; late: another
                \*   writer's PUT had already been sent at that time;
                \*   respSha: the sha field of the read response)
    put,        \* writer -> the PUT request of the running call and its answer
                \*   (current: the store's tag of the file when the PUT arrived)
    outcome,    \* writer -> how the last top-level call ended, seen by its caller
    again,      \* writer -> whether the running call repeats the call before it
    calls,      \* writer -> number of top-level calls started
    batch,      \* writer -> loop state of commit_multiple_changes_to_remote_branch
    log,        \* writer -> requests issued by the running top-level call
    failedAt,   \* writer -> index of the first diff of the batch whose commit failed
    comment,    \* the feedback comment: its body, the PATCH requests sent for
                \*   it, those that succeeded, and the comments created beside it
    rep,        \* the running update_comment_for_raised_errors call
    repo,       \* the remote repository seen by the git refs endpoint
    resolver,   \* the running get_latest_remote_commit_sha call (events: its
                \*   requests, bootstraps and reports in order; pushes: how the
                \*   push of each bootstrap went)
    clock,      \* int(time.time())
    jwts,       \* the assertions create_jwt has minted, in order
    auth,       \* the running get_installation_access_token call
    hook,       \* the webhook request under verify_webhook_signature
    upstream,   \* the pages of open unassigned issues the upstream holds
    lister      \* the running get_oldest_unassigned_open_issue call

commitVars == <<store, pc, call, rd, put, outcome, again, calls, batch, log, failedAt>>

reportVars == <<comment, rep>>
refVars == <<repo, resolver>>
brokerVars == <<clock, jwts, auth>>
hookVars == <<hook>>
listVars == <<upstream, lister>>

vars == <<commitVars, reportVars, refVars, brokerVars, hookVars, listVars>>

-----------------------------------------------------------------------------
(* Bounds and input sets                                                    *)

MaxCalls == 2          \* top-level calls per writer
MaxDiffs == 2          \* length of the diff list of a batch
MaxReports == 2        \* reports made on one feedback comment
MaxBootstraps == 3     \* runs of initialize_repo explored in one resolution

Writers == {"w1", "w2"}
Branches == {"main", "feat"}
DefaultBranch == "main"
Files == {"f1", "f2"}

Lines == {"a", "b"}    \* lines of valid text
BadLine == "x"         \* a line at rest holding bytes that are not valid UTF-8
ReplacementLine == "r" \* the same line after decoding with errors="replace"

NoSha == 0             \* Python's sha = "" : no version tag observed
NoStatus == 0          \* no response received

-----------------------------------------------------------------------------
(* Text, encoding and version tags                                          *)

IsPrefix(p, s) == Len(p) <= Len(s) /\ SubSeq(s, 1, Len(p)) = p

\* base64 is the transport form of the bytes: it wraps and unwraps them.
B64Encode(bytes) == [b64 |-> bytes]
B64Decode(content) == content.b64

\* str.encode(UTF8): a text never holds an undecodable line.
Utf8Encode(text) == text

\* bytes.decode(UTF8, errors="replace"): undecodable bytes become U+FFFD.
Utf8DecodeReplace(bytes) ==
    [i \in DOMAIN bytes |-> IF bytes[i] = BadLine THEN ReplacementLine ELSE bytes[i]]

LineCode(l) == CASE l = "a" -> 1 [] l = "b" -> 2 [] l = BadLine -> 3 [] OTHER -> 4

\* The store's version tag of a file: the hash of its bytes (injective here).
RECURSIVE BlobHash(_)
BlobHash(bytes) ==
    IF bytes = <<>> THEN 0 ELSE LineCode(Head(bytes)) + 5 * BlobHash(Tail(bytes))

BlobSha(bytes) == 1 + BlobHash(bytes)

AbsentFile == [exists |-> FALSE, bytes |-> <<>>]
FileOf(bytes) == [exists |-> TRUE, bytes |-> bytes]

\* The tag the store currently holds for a file (NoSha when there is no file).
CurrentTag(f) == IF f.exists THEN BlobSha(f.bytes) ELSE NoSha

-----------------------------------------------------------------------------
(* Diffs and patch application                                              *)

\* A diff names its file and holds one hunk at the top of the file: the lines
\* it removes and the lines it puts in their place.
Diffs ==
    { [file |-> f, del |-> d, add |-> a] :
        f \in Files, d \in {<<>>, <<"a">>}, a \in {<<>>, <<"a">>, <<"b">>} }
      \ { [file |-> f, del |-> <<"a">>, add |-> <<"a">>] : f \in Files }

extract_file_name(diff_text) == diff_text.file

PatchIsEmpty(d) == d.del = d.add
PatchAlreadyApplied(original_text, d) ==
    /\ d.add # <<>>
    /\ IsPrefix(d.add, original_text)
PatchApplies(original_text, d) == IsPrefix(d.del, original_text)

\* apply_patch: an empty or already-applied patch yields no change; a hunk
\* that does not match leaves the text as it was.
apply_patch(original_text, diff_text) ==
    IF PatchIsEmpty(diff_text) \/ PatchAlreadyApplied(original_text, diff_text)
    THEN original_text
    ELSE IF PatchApplies(original_text, diff_text)
         THEN diff_text.add \o
              SubSeq(original_text, Len(diff_text.del) + 1, Len(original_text))
         ELSE original_text

-----------------------------------------------------------------------------
(* HTTP and error handling                                                  *)

\* Response.raise_for_status raises for 4xx and 5xx only.
RaiseForStatus(status) == status >= 400 /\ status < 600

\* handle_exceptions(default_return_value, raise_on_error): the wrapped call
\* re-raises only when raise_on_error is set, else returns the default value.
HandleExceptions(raise_on_error, raised) ==
    IF raised /\ raise_on_error THEN "raised" ELSE "returned"

\* Statuses the contents endpoint may answer besides 200 and 404.
OtherReadStatuses == {204, 302, 403, 500}

-----------------------------------------------------------------------------
(* The remote content store                                                 *)

\* GET /contents/{file_path}?ref=: the file on the given branch.
StoreGet(s, ref, file_path) ==
    LET f == s[ref][file_path] IN
    IF f.exists
    THEN [status |-> 200, content |-> B64Encode(f.bytes), sha |-> BlobSha(f.bytes)]
    ELSE [status |-> 404, content |-> B64Encode(<<>>), sha |-> NoSha]

\* PUT /contents/{file_path}: optimistic concurrency. The write is accepted
\* only if the supplied tag is the store's current tag of the file on the
\* target branch (no tag for a file that does not exist).
StoreAccepts(s, file_path, data) ==
    LET f == s[data.branch][file_path] IN
    IF f.exists
    THEN data.hasSha /\ data.sha = BlobSha(f.bytes)
    ELSE ~data.hasSha

StorePutStatus(s, file_path, data) ==
    IF StoreAccepts(s, file_path, data)
    THEN IF s[data.branch][file_path].exists THEN 200 ELSE 201
    ELSE IF data.hasSha THEN 409 ELSE 422

StoreAfterPut(s, file_path, data) ==
    IF StoreAccepts(s, file_path, data)
    THEN [s EXCEPT ![data.branch][file_path] = FileOf(B64Decode(data.content))]
    ELSE s

-----------------------------------------------------------------------------
(* commit_changes_to_remote_branch                                          *)

NoCall == [branch |-> DefaultBranch, file_path |-> "f1",
           diff_text |-> [file |-> "f1", del |-> <<>>, add |-> <<>>]]
NoRead == [status |-> NoStatus, ref |-> DefaultBranch,
           original_text |-> <<>>, sha |-> NoSha,
           patched |-> FALSE, modified_text |-> <<>>, target |-> AbsentFile,
           late |-> FALSE, respSha |-> NoSha]
NoPut == [sent |-> FALSE, status |-> NoStatus, hasSha |-> FALSE, sha |-> NoSha,
          branch |-> DefaultBranch, content |-> B64Encode(<<>>),
          accepted |-> FALSE, advanced |-> FALSE, current |-> NoSha]
NoAgain == [on |-> FALSE, file |-> AbsentFile]
NoBatch == [active |-> FALSE, diffs |-> <<>>, idx |-> 0]

\* The branch the read step addresses: the URL carries no ref parameter, so
\* the contents endpoint serves the repository's default branch.
ReadRef(branch) == DefaultBranch

\* Lines 124-136: the baseline and version tag taken from the read response.
ReadBaseline(resp) ==
    IF resp.status = 200
    THEN [original_text |-> Utf8DecodeReplace(B64Decode(resp.content)),
          sha |-> resp.sha]
    ELSE [original_text |-> <<>>, sha |-> NoSha]

\* Lines 135-136: the read raises.
ReadRaises(status) == status # 200 /\ status # 404 /\ RaiseForStatus(status)

\* An early return that also skips a text the patch left unchanged.
SkipsWriteUnchanged(original_text, modified_text) ==
    modified_text = <<>> \/ modified_text = original_text

\* Lines 140-141: the early return without a write.
SkipsWrite(original_text, modified_text) == modified_text = <<>>

\* The payload with the sha field set whatever the read observed.
PutDataAlwaysSha(branch, modified_text, sha) ==
    [content |-> B64Encode(Utf8Encode(modified_text)),
     branch |-> branch,
     hasSha |-> TRUE,
     sha |-> sha]

\* Lines 142-150: the PUT payload.
PutData(branch, modified_text, sha) ==
    [content |-> B64Encode(Utf8Encode(modified_text)),
     branch |-> branch,
     hasSha |-> sha # NoSha,
     sha |-> sha]

-----------------------------------------------------------------------------
(* Decorators of the two commit functions (lines 79 and 107)                *)

CommitRaiseOnError == FALSE     \* commit_changes_to_remote_branch
BatchRaiseOnError == FALSE      \* commit_multiple_changes_to_remote_branch

ArgsOf(branch, diff) ==
    [branch |-> branch, file_path |-> extract_file_name(diff), diff_text |-> diff]

Request(op, w) ==
    [op |-> op, file |-> call[w].file_path, i |-> batch[w].idx]

\* A loop that does not move on to the next diff.
SameDiff(i) == i

\* Line 88: for diff in diffs.
NextDiff(i) == i + 1

\* A call that reads the file again when its PUT was rejected.
FinishRetry(w, raised) ==
    IF pc[w] = "put" /\ raised
    THEN /\ pc' = [pc EXCEPT ![w] = "get"]
         /\ UNCHANGED <<call, outcome, batch, failedAt>>
    ELSE /\ pc' = [pc EXCEPT ![w] = "done"]
         /\ outcome' = [outcome EXCEPT ![w] =
                            HandleExceptions(CommitRaiseOnError, raised)]
         /\ UNCHANGED <<call, batch, failedAt>>

\* The end of one commit_changes_to_remote_branch call of writer w, and what
\* its caller does next: a direct caller sees the decorated outcome; the loop
\* of commit_multiple_changes_to_remote_branch goes on to the next diff unless
\* the call raised into it.
Finish(w, raised) ==
    LET inner == HandleExceptions(CommitRaiseOnError, raised)
        more == batch[w].active /\ inner = "returned"
                    /\ batch[w].idx < Len(batch[w].diffs)
    IN
    /\ failedAt' = [failedAt EXCEPT ![w] =
                        IF batch[w].active /\ raised /\ @ = 0 THEN batch[w].idx ELSE @]
    /\ IF more
       THEN /\ batch' = [batch EXCEPT ![w].idx = NextDiff(@)]
            /\ call' = [call EXCEPT ![w] =
                            ArgsOf(call[w].branch,
                                   batch[w].diffs[NextDiff(batch[w].idx)])]
            /\ pc' = [pc EXCEPT ![w] = "get"]
            /\ UNCHANGED outcome
       ELSE /\ pc' = [pc EXCEPT ![w] = "done"]
            /\ outcome' = [outcome EXCEPT ![w] =
                            IF batch[w].active
                            THEN HandleExceptions(BatchRaiseOnError, inner = "raised")
                            ELSE inner]
            /\ UNCHANGED <<batch, call>>

\* A caller starts commit_changes_to_remote_branch(branch, diff_text, file_path).
StartCall(w, args, repeats) ==
    /\ call' = [call EXCEPT ![w] = args]
    /\ pc' = [pc EXCEPT ![w] = "get"]
    /\ calls' = [calls EXCEPT ![w] = @ + 1]
    /\ rd' = [rd EXCEPT ![w] = NoRead]
    /\ put' = [put EXCEPT ![w] = NoPut]
    /\ outcome' = [outcome EXCEPT ![w] = "none"]
    /\ log' = [log EXCEPT ![w] = <<>>]
    /\ failedAt' = [failedAt EXCEPT ![w] = 0]
    /\ again' = [again EXCEPT ![w] =
                    IF repeats
                    THEN [on |-> TRUE, file |-> store[args.branch][args.file_path]]
                    ELSE NoAgain]
    /\ UNCHANGED <<listVars, store, reportVars, refVars, brokerVars, hookVars>>

CommitCall(w) ==
    /\ pc[w] \in {"idle", "done"}
    /\ calls[w] < MaxCalls
    /\ \E b \in Branches, d \in Diffs : StartCall(w, ArgsOf(b, d), FALSE)
    /\ batch' = [batch EXCEPT ![w] = NoBatch]

\* The caller applies the same diff a second time, after a call whose write
\* was accepted and advanced the file's version tag.
CommitAgain(w) ==
    /\ pc[w] = "done"
    /\ ~batch[w].active
    /\ calls[w] < MaxCalls
    /\ put[w].sent /\ put[w].accepted /\ put[w].advanced
    /\ StartCall(w, call[w], TRUE)
    /\ UNCHANGED batch

\* Each of two concurrent callers makes one call.
RaceCall(w) ==
    /\ pc[w] = "idle"
    /\ \E b \in Branches, d \in Diffs : StartCall(w, ArgsOf(b, d), FALSE)
    /\ UNCHANGED batch

\* Lines 118-150: the GET, the baseline, the patch and the early return.
Get(w) ==
    /\ pc[w] = "get"
    /\ \E resp \in {StoreGet(store, ReadRef(call[w].branch), call[w].file_path)}
                   \cup { [status |-> s, content |-> B64Encode(<<>>), sha |-> NoSha] :
                            s \in OtherReadStatuses } :
          LET base == ReadBaseline(resp)
              modified_text == apply_patch(base.original_text, call[w].diff_text)
              raised == ReadRaises(resp.status)
          IN
          /\ rd' = [rd EXCEPT ![w] =
                      [status |-> resp.status,
                       ref |-> ReadRef(call[w].branch),
                       original_text |-> base.original_text,
                       sha |-> base.sha,
                       patched |-> ~raised,
                       modified_text |-> IF raised THEN <<>> ELSE modified_text,
                       target |-> store[call[w].branch][call[w].file_path],
                       late |-> \E v \in Writers \ {w} : put[v].sent,
                       respSha |-> resp.sha]]
          /\ log' = [log EXCEPT ![w] = Append(@, Request("GET", w))]
          /\ put' = [put EXCEPT ![w] = NoPut]
          /\ IF raised
             THEN Finish(w, TRUE)
             ELSE IF SkipsWrite(base.original_text, modified_text)
                  THEN Finish(w, FALSE)
                  ELSE /\ pc' = [pc EXCEPT ![w] = "put"]
                       /\ UNCHANGED <<call, outcome, batch, failedAt>>
    /\ UNCHANGED <<listVars, store, calls, again, reportVars, refVars, brokerVars, hookVars>>

\* Lines 151-157: the PUT and raise_for_status on its answer.
Put(w) ==
    /\ pc[w] = "put"
    /\ LET data == PutData(call[w].branch, rd[w].modified_text, rd[w].sha)
           status == StorePutStatus(store, call[w].file_path, data)
           after == StoreAfterPut(store, call[w].file_path, data)
           f == call[w].file_path
           b == call[w].branch
       IN
       /\ store' = after
       /\ put' = [put EXCEPT ![w] =
                    [sent |-> TRUE, status |-> status,
                     hasSha |-> data.hasSha, sha |-> data.sha,
                     branch |-> data.branch, content |-> data.content,
                     accepted |-> StoreAccepts(store, f, data),
                     advanced |-> CurrentTag(after[b][f]) # CurrentTag(store[b][f]),
                     current |-> CurrentTag(store[b][f])]]
       /\ log' = [log EXCEPT ![w] =
                    Append(@, Request("PUT", w)
                                @@ [accepted |-> StoreAccepts(store, f, data),
                                    content |-> data.content])]
       /\ Finish(w, RaiseForStatus(status))
    /\ UNCHANGED <<listVars, rd, calls, again, reportVars, refVars, brokerVars, hookVars>>

\* Lines 79-104: commit_multiple_changes_to_remote_branch(diffs, new_branch)
\* enters its loop with the first diff; Finish carries the loop on.
DiffLists == UNION { [1..n -> Diffs] : n \in 1..MaxDiffs }

BatchCall(w) ==
    /\ pc[w] = "idle"
    /\ \E new_branch \in Branches, diffs \in DiffLists :
          /\ StartCall(w, ArgsOf(new_branch, diffs[1]), FALSE)
          /\ batch' = [batch EXCEPT ![w] = [active |-> TRUE, diffs |-> diffs, idx |-> 1]]

-----------------------------------------------------------------------------
(* The failure reporter: update_comment_for_raised_errors, update_comment   *)

UPDATE_COMMENT_FOR_RAISED_ERRORS_BODY == "error occurred"
UPDATE_COMMENT_FOR_RAISED_ERRORS_NO_CHANGES_MADE == "no changes made"

\* An error value handed to the reporter.
\*   http        isinstance(error, requests.exceptions.HTTPError)
\*   hasResponse error.response is a response (it is None for a malformed error)
\*   status      error.response.status_code
\*   top, list, msg   the JSON body of the response: its "message", the shape
\*               of its "errors" list and the message of the first error in it
\*   shape       how the error object itself exposes that body:
\*               "plain"  as requests builds it: no error[...], no attributes
\*               "keys"   error["message"], error.message, error.errors, the
\*                        elements of errors being dicts
\*               "attrs"  the same, the elements being objects with .message
PlainError == [http |-> FALSE, hasResponse |-> FALSE, status |-> NoStatus,
               shape |-> "plain", top |-> "", list |-> "empty", msg |-> "other"]
MalformedError == [PlainError EXCEPT !.http = TRUE]

HttpErrors ==
    { [http |-> TRUE, hasResponse |-> TRUE, status |-> st, shape |-> sh,
       top |-> t, list |-> l, msg |-> m] :
        st \in {404, 422}, sh \in {"plain", "keys", "attrs"},
        t \in {"Validation Failed", "Not Found", ""},
        l \in {"flat", "nested", "empty"},
        m \in {"No commits between main and feature-1",
               "No commits between develop and feature-1", "other"} }

Errors == {PlainError, MalformedError} \cup HttpErrors

\* str.find("No commits between main and") != -1
FindsNoCommits(msg) == msg = "No commits between main and feature-1"

\* Lines 598-639: the body the classification selects, and whether the
\* classification itself raised (and was caught at line 638).
Classify(error) ==
    LET generic(caught) ==
            [body |-> UPDATE_COMMENT_FOR_RAISED_ERRORS_BODY, caught |-> caught]
    IN
    IF ~error.http THEN generic(FALSE)
    ELSE IF ~error.hasResponse THEN generic(TRUE)          \* error.response is None
    ELSE IF error.status # 422 THEN generic(FALSE)
    ELSE IF error.shape = "plain" THEN generic(TRUE)       \* error["message"]
    ELSE IF error.top = "" THEN generic(FALSE)             \* falsy message
    ELSE IF error.top # "Validation Failed" THEN generic(FALSE)
    ELSE IF error.list = "empty" THEN generic(TRUE)        \* error.errors[0]
    ELSE IF error.shape = "keys" THEN generic(FALSE)       \* hasattr(dict, "message")
    ELSE IF FindsNoCommits(error.msg)
         THEN [body |-> UPDATE_COMMENT_FOR_RAISED_ERRORS_NO_CHANGES_MADE,
               caught |-> FALSE]
         ELSE generic(FALSE)

UpdateCommentRaiseOnError == FALSE    \* the decorator of update_comment, line 581

CommentUrls == {"valid", "invalid"}

NoReport == [pc |-> "idle", caller |-> "none", error |-> PlainError,
             url |-> "valid", body |-> "", caught |-> FALSE,
             attempted |-> FALSE, updated |-> FALSE, end |-> "none",
             requests |-> <<>>]

\* A reporter without the try/except of lines 599-639: an error raised by the
\* classification leaves the reporter before the comment update.
EnterReporterUncaught(error, comment_url, caller) ==
    rep' = [pc |-> IF Classify(error).caught THEN "done" ELSE "update",
            caller |-> caller, error |-> error,
            url |-> comment_url, body |-> Classify(error).body,
            caught |-> FALSE,
            attempted |-> FALSE, updated |-> FALSE,
            end |-> IF Classify(error).caught THEN "ClassifyError" ELSE "none",
            requests |-> <<>>]

\* Lines 594-639: the reporter is entered and classifies the error.
EnterReporter(error, comment_url, caller) ==
    rep' = [pc |-> "update", caller |-> caller, error |-> error,
            url |-> comment_url, body |-> Classify(error).body,
            caught |-> Classify(error).caught,
            attempted |-> FALSE, updated |-> FALSE, end |-> "none",
            requests |-> <<>>]

\* A reporter whose last statement is the update_comment call.
ReporterEndReturns(update_outcome) ==
    IF update_outcome = "raised" THEN "UpdateError" ELSE "returned"

\* How update_comment_for_raised_errors ends after the update_comment call of
\* line 640: an error of update_comment propagates, otherwise line 642 raises
\* RuntimeError("Error occurred").
ReporterEnd(update_outcome) ==
    IF update_outcome = "raised" THEN "UpdateError" ELSE "RuntimeError"

\* A caller reports an error it caught (as create_remote_branch, lines 310-316).
ReportCall ==
    /\ rep.pc \in {"idle", "done"}
    /\ resolver.pc = "idle"
    /\ comment.patches + comment.posts < MaxReports
    /\ \E error \in Errors, comment_url \in CommentUrls :
          EnterReporter(error, comment_url, "direct")
    /\ UNCHANGED <<listVars, brokerVars, hookVars, commitVars, comment, refVars>>

\* Lines 581-591 and 640: the PATCH of the comment; a request that fails is
\* handled by the decorator of update_comment.
\* A request that creates a comment instead of updating the given one.
CreateCommentRequest(comment_url, body) ==
    [method |-> "POST", url |-> comment_url, body |-> body]

\* Lines 584-589: the request update_comment sends.
UpdateCommentRequest(comment_url, body) ==
    [method |-> "PATCH", url |-> comment_url, body |-> body]

\* The comment endpoint: a PATCH that succeeds replaces the body of the
\* comment, a POST adds another comment.
CommentAfter(c, request, ok) ==
    IF request.method = "POST"
    THEN [c EXCEPT !.posts = @ + 1]
    ELSE [c EXCEPT !.body = IF ok THEN request.body ELSE @,
                   !.patches = @ + 1,
                   !.updates = IF ok THEN @ + 1 ELSE @]

PatchComment(ok) ==
    /\ rep.pc = "update"
    /\ ok => rep.url = "valid"
    /\ comment' = CommentAfter(comment, UpdateCommentRequest(rep.url, rep.body), ok)
    /\ rep' = [rep EXCEPT
                  !.pc = "done",
                  !.requests = Append(@, UpdateCommentRequest(rep.url, rep.body)),
                  !.attempted = TRUE,
                  !.updated = ok,
                  !.end = ReporterEnd(HandleExceptions(UpdateCommentRaiseOnError, ~ok))]

UpdateComment ==
    /\ rep.caller = "direct"
    /\ \E ok \in BOOLEAN : PatchComment(ok)
    /\ UNCHANGED <<listVars, brokerVars, hookVars, commitVars, refVars>>

-----------------------------------------------------------------------------
(* The ref resolver: get_latest_remote_commit_sha, initialize_repo          *)

EmptyRepoMessage == "Git Repository is empty."

EmptyRepo == [empty |-> TRUE, sha |-> NoSha]
RepoAt(sha) == [empty |-> FALSE, sha |-> sha]
InitialCommitSha == 1      \* the commit initialize_repo pushes
ExistingCommitSha == 2     \* the head of a repository that has commits

\* What one GET of /git/ref/heads/{branch} can bring: the answer the state
\* of the repository determines, another error answer, an answer without
\* the expected JSON, or no answer at all (timeout, connection error).
RefAnswers(r) ==
    { IF r.empty
      THEN [kind |-> "response", status |-> 409, message |-> EmptyRepoMessage,
            sha |-> NoSha]
      ELSE [kind |-> "response", status |-> 200, message |-> "", sha |-> r.sha] }
    \cup { [kind |-> "response", status |-> 404, message |-> "Not Found", sha |-> NoSha],
           [kind |-> "response", status |-> 409, message |-> "Conflict", sha |-> NoSha],
           [kind |-> "response", status |-> 500, message |-> "Server Error", sha |-> NoSha],
           [kind |-> "response", status |-> 200, message |-> "", sha |-> NoSha],
           [kind |-> "exception", status |-> NoStatus, message |-> "", sha |-> NoSha] }

\* Lines 425-428: the answer that starts the bootstrap.
IsEmptyRepoAnswer(a) ==
    /\ a.kind = "response"
    /\ a.status = 409
    /\ a.message = EmptyRepoMessage

\* A call that returns whatever a success answer holds, a missing sha too.
AfterRefRequestLenient(a) ==
    IF a.kind = "exception" THEN "report"
    ELSE IF RaiseForStatus(a.status)
         THEN IF IsEmptyRepoAnswer(a) THEN "bootstrap" ELSE "reraise"
         ELSE "return"

\* Lines 416-442: where one request leaves the call.
\*   "return"     line 423 returns the sha
\*   "bootstrap"  lines 429-441
\*   "reraise"    line 442: the HTTPError goes to the caller as it is
\*   "report"     lines 443-449: the Failure Reporter is called
AfterRefRequest(a) ==
    IF a.kind = "exception" THEN "report"
    ELSE IF RaiseForStatus(a.status)
         THEN IF IsEmptyRepoAnswer(a) THEN "bootstrap" ELSE "reraise"
         ELSE IF a.sha = NoSha THEN "report"      \* response.json()["object"]["sha"]
              ELSE "return"

RefCall ==
    /\ resolver.pc = "idle"
    /\ rep.pc = "idle"
    /\ \E comment_url \in CommentUrls :
          resolver' = [resolver EXCEPT !.pc = "request", !.url = comment_url,
                                       !.depth = 1]
    /\ UNCHANGED <<listVars, brokerVars, hookVars, commitVars, reportVars, repo>>

RefRequest ==
    /\ resolver.pc = "request"
    /\ \E a \in RefAnswers(repo) :
          LET next == AfterRefRequest(a)
              seen == [resolver EXCEPT !.events = Append(@, "GET"),
                                       !.status = a.status]
          IN
          CASE next = "return" ->
                 /\ resolver' = [seen EXCEPT !.pc = "done", !.result = "sha",
                                             !.sha = a.sha]
                 /\ UNCHANGED rep
            [] next = "bootstrap" ->
                 /\ resolver' = [seen EXCEPT !.pc = "bootstrap"]
                 /\ UNCHANGED rep
            [] next = "reraise" ->
                 /\ resolver' = [seen EXCEPT !.pc = "done", !.result = "HTTPError"]
                 /\ UNCHANGED rep
            [] OTHER ->
                 /\ resolver' = [seen EXCEPT !.pc = "report"]
                 /\ EnterReporter(PlainError, resolver.url,
                                  "get_latest_remote_commit_sha")
    /\ UNCHANGED <<listVars, brokerVars, hookVars, commitVars, comment, repo>>

\* A bootstrap that pushes twice before the ref is requested again.
InitializeRepoTwice ==
    /\ resolver.pc = "bootstrap"
    /\ resolver.bootstraps < MaxBootstraps
    /\ repo' = RepoAt(InitialCommitSha)
    /\ resolver' = [resolver EXCEPT !.pc = "request",
                                    !.depth = @ + 1,
                                    !.bootstraps = @ + 2,
                                    !.pushes = @ \o <<"pushed", "pushed">>,
                                    !.events = @ \o <<"INIT", "INIT">>]
    /\ UNCHANGED <<listVars, brokerVars, hookVars, commitVars, reportVars>>

\* Lines 319-330 and 432-441: initialize_repo, then the call invokes itself.
\* The push may succeed, fail without an error, or raise out of run_command.
InitializeRepo ==
    /\ resolver.pc = "bootstrap"
    /\ resolver.bootstraps < MaxBootstraps
    /\ \E push \in {"pushed", "silent failure", "raised"} :
          /\ repo' = IF push = "pushed" THEN RepoAt(InitialCommitSha) ELSE repo
          /\ resolver' =
                IF push = "raised"
                THEN [resolver EXCEPT !.pc = "done", !.result = "CommandError",
                                      !.bootstraps = @ + 1,
                                      !.pushes = Append(@, push),
                                      !.events = Append(@, "INIT")]
                ELSE [resolver EXCEPT !.pc = "request",
                                      !.depth = @ + 1,
                                      !.bootstraps = @ + 1,
                                      !.pushes = Append(@, push),
                                      !.events = Append(@, "INIT")]
    /\ UNCHANGED <<listVars, brokerVars, hookVars, commitVars, reportVars>>

\* Lines 444-453: the reporter's PATCH; the error the reporter raises leaves
\* the call, and the RuntimeError of line 451 is raised only if the reporter
\* came back.
RefReport ==
    /\ resolver.pc = "report"
    /\ rep.caller = "get_latest_remote_commit_sha"
    /\ \E ok \in BOOLEAN : PatchComment(ok)
    /\ resolver' = [resolver EXCEPT
                       !.pc = "done",
                       !.events = Append(@, "REPORT"),
                       !.result = IF rep'.end # "returned" THEN "ReporterError"
                                  ELSE "RuntimeError"]
    /\ UNCHANGED <<listVars, brokerVars, hookVars, commitVars, repo>>

-----------------------------------------------------------------------------
(* The credential broker: create_jwt, get_installation_access_token        *)

MaxClock == 3
MaxJwts == 3

JwtLifetime == 600
GITHUB_APP_ID == "configured app id"
GITHUB_PRIVATE_KEY == "configured private key"

\* An assertion that lives one minute.
create_jwt_short(now) ==
    [alg |-> "RS256", key |-> GITHUB_PRIVATE_KEY,
     payload |-> [iat |-> now, exp |-> now + 60, iss |-> GITHUB_APP_ID]]

\* Lines 261-270, with now = int(time.time()).
create_jwt(now) ==
    [alg |-> "RS256", key |-> GITHUB_PRIVATE_KEY,
     payload |-> [iat |-> now, exp |-> now + JwtLifetime, iss |-> GITHUB_APP_ID]]

\* The clock does not go back.
Tick ==
    /\ clock < MaxClock
    /\ clock' = clock + 1
    /\ UNCHANGED <<listVars, jwts, auth, hookVars, commitVars, reportVars, refVars>>

\* A caller mints an assertion (create_jwt is also called on its own).
CreateJwt ==
    /\ Len(jwts) < MaxJwts
    /\ jwts' = Append(jwts, create_jwt(clock))
    /\ UNCHANGED <<listVars, clock, auth, hookVars, commitVars, reportVars, refVars>>

TokenRaiseOnError == FALSE    \* the decorator of line 333

InstallationIds == {"i1", "i2"}
NoToken == "None"
TokenOf(installation_id) == [installation |-> installation_id]

NoAuth == [pc |-> "idle", installation_id |-> "i1", jwt |-> create_jwt(0),
           status |-> NoStatus, outcome |-> "none", value |-> NoToken,
           errorStatus |-> NoStatus]

\* What the token-issuance endpoint can answer: a created token, a success
\* answer without the token field, or an error status.
TokenAnswers(installation_id) ==
    { [status |-> 201, hasToken |-> TRUE, token |-> TokenOf(installation_id)],
      [status |-> 201, hasToken |-> FALSE, token |-> NoToken] }
    \cup { [status |-> st, hasToken |-> FALSE, token |-> NoToken] :
             st \in {401, 403, 404, 500} }

\* Lines 336-341: the assertion is minted and the request is sent.
TokenCall ==
    /\ auth.pc \in {"idle", "done"}
    /\ Len(jwts) < MaxJwts
    /\ jwts' = Append(jwts, create_jwt(clock))
    /\ \E installation_id \in InstallationIds :
          auth' = [NoAuth EXCEPT !.pc = "post",
                                 !.installation_id = installation_id,
                                 !.jwt = create_jwt(clock)]
    /\ UNCHANGED <<listVars, clock, hookVars, commitVars, reportVars, refVars>>

\* Lines 342-343 under the decorator of line 333: what the caller gets.
TokenAnswer ==
    /\ auth.pc = "post"
    /\ \E a \in TokenAnswers(auth.installation_id) :
          LET raised == RaiseForStatus(a.status) \/ ~a.hasToken    \* json()["token"]
              end == HandleExceptions(TokenRaiseOnError, raised)
          IN auth' = [auth EXCEPT
                         !.pc = "done",
                         !.status = a.status,
                         !.outcome = end,
                         !.value = IF raised THEN NoToken ELSE a.token,
                         !.errorStatus = IF end = "raised" THEN a.status
                                         ELSE NoStatus]
    /\ UNCHANGED <<listVars, clock, jwts, hookVars, commitVars, reportVars, refVars>>

-----------------------------------------------------------------------------
(* The signature verifier: verify_webhook_signature                         *)

Secrets == {"s1", "s2"}
Bodies == {"b1", "b2"}

\* hmac.new(key, msg, sha256): a digest that depends on the key and on the
\* message, distinct for distinct pairs.
HmacSha256(key, msg) == [key |-> key, msg |-> msg]

\* hexdigest(): lower-case hexadecimal digits.
HexDigest(digest) == [digest |-> digest, case |-> "lower"]

\* A header value is a prefix, hexadecimal digits and what follows them:
\* nothing, one more digit, or a character outside ASCII.
HeaderValue(prefix, hex, suffix) ==
    [present |-> TRUE, prefix |-> prefix, hex |-> hex, suffix |-> suffix]

NoHeader ==
    [present |-> FALSE, prefix |-> "", hex |-> HexDigest(HmacSha256("s1", "b1")),
     suffix |-> ""]

Headers ==
    {NoHeader}
    \cup { HeaderValue(p, [digest |-> HmacSha256(k, b), case |-> c], x) :
             p \in {"sha256=", "sha1=", ""},
             k \in Secrets, b \in Bodies, c \in {"lower", "upper"},
             x \in {"", "0", "non-ascii"} }

\* A signature without the "sha256=" prefix.
ExpectedSignatureNoPrefix(secret, body) ==
    HeaderValue("", HexDigest(HmacSha256(secret, body)), "")

\* Lines 572-576: "sha256=" + hmac.new(secret.encode(), body, sha256).hexdigest()
ExpectedSignature(secret, body) ==
    HeaderValue("sha256=", HexDigest(HmacSha256(secret, body)), "")

IsAscii(value) == value.suffix # "non-ascii"

\* hmac.compare_digest on two str: TypeError unless both are ASCII only.
CompareDigest(a, b) ==
    IF ~IsAscii(a) \/ ~IsAscii(b) THEN "TypeError"
    ELSE IF a = b THEN "equal" ELSE "different"

\* Lines 566-578: the error the body of the function raises, or "none".
verify_webhook_signature(header, body, secret) ==
    IF ~header.present THEN "Missing webhook signature"
    ELSE LET compared == CompareDigest(header, ExpectedSignature(secret, body))
         IN IF compared = "TypeError" THEN "TypeError"
            ELSE IF compared = "different" THEN "Invalid webhook signature"
            ELSE "none"

VerifyRaiseOnError == TRUE    \* the decorator of line 563

NoHook == [pc |-> "idle", header |-> NoHeader, body |-> "b1", secret |-> "s1",
           outcome |-> "none", error |-> "none"]

\* A webhook request arrives.
Deliver ==
    /\ hook.pc \in {"idle", "done"}
    /\ \E header \in Headers, body \in Bodies, secret \in Secrets :
          hook' = [NoHook EXCEPT !.pc = "verify", !.header = header,
                                 !.body = body, !.secret = secret]
    /\ UNCHANGED <<listVars, brokerVars, commitVars, reportVars, refVars>>

\* The request is verified.
Verify ==
    /\ hook.pc = "verify"
    /\ LET error == verify_webhook_signature(hook.header, hook.body, hook.secret)
           end == HandleExceptions(VerifyRaiseOnError, error # "none")
       IN hook' = [hook EXCEPT !.pc = "done",
                               !.outcome = end,
                               !.error = IF end = "raised" THEN error ELSE "none"]
    /\ UNCHANGED <<listVars, brokerVars, commitVars, reportVars, refVars>>

-----------------------------------------------------------------------------
(* The issue lister: get_oldest_unassigned_open_issue                       *)

MaxPages == 2
MaxPageLen == 2

PRODUCT_ID == "gitauto"

\* An issue is known by the names of its labels.
LabelSets == {{}, {"bug"}, {PRODUCT_ID, "bug"}}

\* The non-empty pages the upstream can hold.
Pages == UNION { [1..n -> LabelSets] : n \in 1..MaxPageLen }

\* Line 485: all(label["name"] != PRODUCT_ID for label in issue["labels"])
LacksProductLabel(labels) == \A name \in labels : name # PRODUCT_ID

\* Lines 484-486: the position of the first issue of the page without the
\* label, 0 when every issue carries it.
RECURSIVE FirstUnlabelled(_, _)
FirstUnlabelled(issues, k) ==
    IF k > Len(issues) THEN 0
    ELSE IF LacksProductLabel(issues[k]) THEN k
    ELSE FirstUnlabelled(issues, k + 1)

\* The page a request for page number n is answered with: past the last page
\* the list is empty.
PageOf(u, n) == IF n \in DOMAIN u THEN u[n] ELSE <<>>

ListRaiseOnError == FALSE    \* the decorator of line 456

NoIssue == [page |-> 0, at |-> 0, labels |-> {}]

NoLister == [pc |-> "idle", page |-> 0, requested |-> <<>>, served |-> <<>>,
             outcome |-> "none", result |-> "none", issue |-> NoIssue]

\* Line 461: the call starts with page 1.
ListCall ==
    /\ lister.pc = "idle"
    /\ lister' = [NoLister EXCEPT !.pc = "request", !.page = 1]
    /\ UNCHANGED <<upstream, brokerVars, hookVars, commitVars, reportVars, refVars>>

\* Line 489: page += 1
NextPage(page) == page + 1

\* Lines 463-489 under the decorator of line 456: one turn of the loop. The
\* upstream answers with the page asked for or with an error status.
ListPage ==
    /\ lister.pc = "request"
    /\ \E a \in { [status |-> 200, issues |-> PageOf(upstream, lister.page)] }
                \cup { [status |-> st, issues |-> <<>>] : st \in {403, 500} } :
          LET seen == [lister EXCEPT !.requested = Append(@, lister.page),
                                     !.served = Append(@, a)]
              first == FirstUnlabelled(a.issues, 1)
          IN
          lister' =
             IF RaiseForStatus(a.status)
             THEN [seen EXCEPT !.pc = "done",
                               !.outcome = HandleExceptions(ListRaiseOnError, TRUE),
                               !.result = IF ListRaiseOnError THEN "HTTPError"
                                          ELSE "None"]
             ELSE IF a.issues = <<>>
             THEN [seen EXCEPT !.pc = "done", !.outcome = "returned",
                               !.result = "None"]
             ELSE IF first # 0
             THEN [seen EXCEPT !.pc = "done", !.outcome = "returned",
                               !.result = "issue",
                               !.issue = [page |-> lister.page, at |-> first,
                                          labels |-> a.issues[first]]]
             ELSE [seen EXCEPT !.page = NextPage(@)]
    /\ UNCHANGED <<upstream, brokerVars, hookVars, commitVars, reportVars, refVars>>

-----------------------------------------------------------------------------
(* Initial states and specifications                                        *)

InitFiles == {AbsentFile, FileOf(<<"a">>), FileOf(<<BadLine>>)}

IdleWriters ==
    /\ pc = [w \in Writers |-> "idle"]
    /\ call = [w \in Writers |-> NoCall]
    /\ rd = [w \in Writers |-> NoRead]
    /\ put = [w \in Writers |-> NoPut]
    /\ outcome = [w \in Writers |-> "none"]
    /\ again = [w \in Writers |-> NoAgain]
    /\ calls = [w \in Writers |-> 0]
    /\ batch = [w \in Writers |-> NoBatch]
    /\ log = [w \in Writers |-> <<>>]
    /\ failedAt = [w \in Writers |-> 0]

IdleReporter ==
    /\ comment = [body |-> "progress", patches |-> 0, posts |-> 0, updates |-> 0]
    /\ rep = NoReport

NoRef == [pc |-> "idle", url |-> "valid", depth |-> 0, bootstraps |-> 0,
          pushes |-> <<>>, events |-> <<>>, status |-> NoStatus, result |-> "none", sha |-> NoSha]

IdleResolver ==
    /\ repo = EmptyRepo
    /\ resolver = NoRef

IdleBroker ==
    /\ clock = 0
    /\ jwts = <<>>
    /\ auth = NoAuth

IdleHook == hook = NoHook

IdleLister ==
    /\ upstream = <<>>
    /\ lister = NoLister

\* Every file of a branch starts with the same content; the branches differ.
InitCommit ==
    /\ store \in { [b \in Branches |-> [f \in Files |-> perBranch[b]]] :
                     perBranch \in [Branches -> InitFiles] }
    /\ IdleWriters
    /\ IdleReporter
    /\ IdleResolver
    /\ IdleBroker
    /\ IdleHook
    /\ IdleLister

\* One caller, calls in sequence.
Caller == "w1"

NextCommit == CommitCall(Caller) \/ CommitAgain(Caller) \/ Get(Caller) \/ Put(Caller)

SpecCommit == InitCommit /\ [][NextCommit]_vars

\* Two callers, one call each, interleaved at the network requests.
NextRace == \E w \in Writers : RaceCall(w) \/ Get(w) \/ Put(w)

SpecRace == InitCommit /\ [][NextRace]_vars

\* One caller of the batch variant.
NextBatch == BatchCall(Caller) \/ Get(Caller) \/ Put(Caller)

SpecBatch == InitCommit /\ [][NextBatch]_vars

\* Callers of the failure reporter, one report after another.
InitReport ==
    /\ store = [b \in Branches |-> [f \in Files |-> AbsentFile]]
    /\ IdleWriters
    /\ IdleReporter
    /\ IdleResolver
    /\ IdleBroker
    /\ IdleHook
    /\ IdleLister

NextReport == ReportCall \/ UpdateComment

SpecReport == InitReport /\ [][NextReport]_vars

\* One resolution of a branch head.
NextRef == RefCall \/ RefRequest \/ InitializeRepo \/ RefReport

\* The repository is empty or has commits when the resolution starts.
InitRef ==
    /\ store = [b \in Branches |-> [f \in Files |-> AbsentFile]]
    /\ IdleWriters
    /\ IdleReporter
    /\ repo \in {EmptyRepo, RepoAt(ExistingCommitSha)}
    /\ resolver = NoRef
    /\ IdleBroker
    /\ IdleHook
    /\ IdleLister

SpecRef == InitRef /\ [][NextRef]_vars

\* Callers of the credential broker under a clock that moves forward.
NextAuth == Tick \/ CreateJwt \/ TokenCall \/ TokenAnswer

SpecAuth == InitReport /\ [][NextAuth]_vars

\* Webhook requests, one after another.
NextWebhook == Deliver \/ Verify

SpecWebhook == InitReport /\ [][NextWebhook]_vars

\* One listing of the open issues of a repository; the loop keeps running
\* until it returns.
InitList ==
    /\ store = [b \in Branches |-> [f \in Files |-> AbsentFile]]
    /\ IdleWriters
    /\ IdleReporter
    /\ IdleResolver
    /\ IdleBroker
    /\ IdleHook
    /\ upstream \in UNION { [1..n -> Pages] : n \in 0..MaxPages }
    /\ lister = NoLister

NextList == ListCall \/ ListPage

SpecList == InitList /\ [][NextList]_vars /\ WF_vars(NextList)

-----------------------------------------------------------------------------
(* Claims about the content mutation engine                                 *)

ReadOk(w) == rd[w].status \in {200, 404}
SuppliedTag(w) == IF put[w].hasSha THEN put[w].sha ELSE NoSha
SameTarget(v, w) ==
    call[v].branch = call[w].branch /\ call[v].file_path = call[w].file_path

\* C1: two concurrent calls against the same branch and file that read the
\* same version tag and both send their PUT have exactly one PUT accepted and
\* the other rejected, and a PUT whose tag is not the store's current tag
\* never replaces the stored content.
C1_ExactlyOneWriterWins ==
    /\ ( /\ pc["w1"] = "done" /\ pc["w2"] = "done"
         /\ SameTarget("w1", "w2")
         /\ ReadOk("w1") /\ ReadOk("w2")
         /\ ~rd["w1"].late /\ ~rd["w2"].late
         /\ rd["w1"].sha = rd["w2"].sha
         /\ put["w1"].sent /\ put["w2"].sent )
       => (put["w1"].accepted # put["w2"].accepted)
    /\ \A w \in Writers :
          (put[w].sent /\ SuppliedTag(w) # put[w].current) => ~put[w].accepted

\* C2: a PUT rejected for a version tag mismatch ends the call with an error
\* the caller can see, not with the normal return of a successful write.
C2_ConflictIsSurfaced ==
    \A w \in Writers :
        (pc[w] = "done" /\ put[w].sent /\ ~put[w].accepted)
            => outcome[w] = "raised"

\* C3: in the batch variant no GET or PUT is issued for a diff that comes
\* after the first diff whose commit failed.
C3_BatchAbortsOnFirstFailure ==
    \A w \in Writers :
        failedAt[w] # 0 =>
            \A k \in DOMAIN log[w] : log[w][k].i <= failedAt[w]

\* C7: the baseline and the version tag the read step yields are those of
\* the file on the target branch, the branch the PUT writes to.
C7_ReadsTargetBranch ==
    \A w \in Writers :
        ReadOk(w) =>
            /\ rd[w].sha = CurrentTag(rd[w].target)
            /\ rd[w].original_text = Utf8DecodeReplace(rd[w].target.bytes)

\* C8: applying the same diff again, after a call whose write was accepted
\* and advanced the version tag, issues no PUT and leaves the stored file as
\* the first call left it.
C8_SecondApplicationIsNoOp ==
    \A w \in Writers :
        (again[w].on /\ pc[w] \in {"put", "done"})
            => /\ pc[w] = "done"
               /\ ~put[w].sent
               /\ store[call[w].branch][call[w].file_path] = again[w].file

\* C9: a patch that leaves the baseline unchanged leads to no PUT and to a
\* normal return.
C9_UnchangedTextIsNotWritten ==
    \A w \in Writers :
        (rd[w].patched /\ rd[w].modified_text = rd[w].original_text)
            => /\ pc[w] = "done"
               /\ ~put[w].sent
               /\ outcome[w] = "returned"

\* C10: a read status other than 200 or 404 is fatal for the attempt: the
\* patch is not applied and no PUT is issued.
C10_OtherReadStatusIsFatal ==
    \A w \in Writers :
        (rd[w].status # NoStatus /\ ~ReadOk(w))
            => /\ ~rd[w].patched
               /\ pc[w] # "put"
               /\ ~put[w].sent

\* C11: after a 404 read the baseline is empty and the PUT carries no sha
\* field and exactly the patch applied to the empty text; after a 200 read
\* the PUT carries exactly the sha of the read response; in both cases the
\* PUT carries the target branch.
C11_PutPayloadFollowsRead ==
    \A w \in Writers :
        put[w].sent =>
            /\ put[w].branch = call[w].branch
            /\ rd[w].status = 404 =>
                  /\ rd[w].original_text = <<>>
                  /\ ~put[w].hasSha
                  /\ B64Decode(put[w].content)
                        = Utf8Encode(apply_patch(<<>>, call[w].diff_text))
            /\ rd[w].status = 200 =>
                  /\ put[w].hasSha
                  /\ put[w].sha = rd[w].respSha

\* One writer has created a file after a 404 read and the other has updated
\* a file after a 200 read.
C11_Witness ==
    /\ put["w1"].sent /\ put["w1"].accepted
    /\ rd["w1"].status = 404 /\ ~put["w1"].hasSha
    /\ put["w2"].sent /\ put["w2"].accepted
    /\ rd["w2"].status = 200 /\ put["w2"].sha = put["w2"].current

-----------------------------------------------------------------------------
(* Claims about the ref resolver and the failure reporter                   *)

\* C4: one call of get_latest_remote_commit_sha runs initialize_repo at most
\* once; a repository still empty after the bootstrap makes the call raise.
C4_AtMostOneBootstrap == resolver.bootstraps <= 1

\* C5: update_comment_for_raised_errors never returns normally: for every
\* error value, and whether the comment update succeeds or fails, it ends by
\* raising the generic terminal error, and only after the comment update was
\* attempted.
C5_ReporterAlwaysRaises ==
    /\ rep.pc = "done" => (rep.end = "RuntimeError" /\ rep.attempted)
    /\ rep.pc = "update" => (rep.end = "none" /\ ~rep.attempted)

\* A report of a malformed HTTP error whose comment update failed.
C5_Witness ==
    /\ rep.pc = "done"
    /\ rep.error = MalformedError
    /\ rep.attempted /\ ~rep.updated
    /\ rep.end = "RuntimeError"

\* C6: for an HTTP error of status 422 whose body is the Validation Failed
\* payload with the message "No commits between main and feature-1" in its
\* errors list, flat or nested, the body written is the no-changes body.
IsNoCommitsError(error) ==
    /\ error.http /\ error.hasResponse
    /\ error.status = 422
    /\ error.top = "Validation Failed"
    /\ error.list \in {"flat", "nested"}
    /\ error.msg = "No commits between main and feature-1"

C6_NoCommitsSelectsNoChangesBody ==
    (rep.pc \in {"update", "done"} /\ IsNoCommitsError(rep.error))
        => rep.body = UPDATE_COMMENT_FOR_RAISED_ERRORS_NO_CHANGES_MADE

ReporterBodies ==
    {UPDATE_COMMENT_FOR_RAISED_ERRORS_BODY,
     UPDATE_COMMENT_FOR_RAISED_ERRORS_NO_CHANGES_MADE}

OnePatchPerReport ==
    /\ rep.pc = "done" =>
          /\ Len(rep.requests) = 1
          /\ rep.requests[1].method = "PATCH"
          /\ rep.requests[1].url = rep.url
          /\ rep.requests[1].body \in ReporterBodies
    /\ comment.posts = 0

\* C12 as stated: every report issues exactly one PATCH to the given url and
\* never creates a comment, and the one feedback comment then holds one of
\* the two reporter bodies.
C12_CommentHoldsReporterBody ==
    /\ OnePatchPerReport
    /\ rep.pc = "done" => comment.body \in ReporterBodies

\* C12 amended: every report issues exactly one PATCH to the given url and
\* never creates a comment; the one feedback comment holds one of the two
\* reporter bodies once a PATCH has succeeded, and the body of the running
\* report when its own PATCH succeeded.
C12_OnePatchNoSecondComment ==
    /\ OnePatchPerReport
    /\ comment.updates > 0 => comment.body \in ReporterBodies
    /\ (rep.pc = "done" /\ rep.updated) => comment.body = rep.body

\* Two reports were made on the comment, the first PATCH succeeded and the
\* second failed.
C12_Witness ==
    /\ rep.pc = "done"
    /\ comment.patches = 2
    /\ comment.updates = 1
    /\ ~rep.updated

\* The error values whose classification raises: an HTTP error without a
\* response, one that is not subscriptable, one with an empty errors list.
ClassificationFails(error) ==
    /\ error.http
    /\ \/ ~error.hasResponse
       \/ error.status = 422 /\ error.shape = "plain"
       \/ /\ error.status = 422 /\ error.shape # "plain"
          /\ error.top = "Validation Failed" /\ error.list = "empty"

\* C13: when classifying the error itself fails, the failure is caught, the
\* generic body is used, and the comment update is attempted with it before
\* the reporter raises.
C13_ClassificationFailureFallsBack ==
    (rep.pc # "idle" /\ ClassificationFails(rep.error)) =>
        /\ rep.caught
        /\ rep.body = UPDATE_COMMENT_FOR_RAISED_ERRORS_BODY
        /\ rep.pc = "update" => rep.end = "none"
        /\ rep.pc = "done" =>
              /\ rep.attempted
              /\ rep.requests
                    = <<UpdateCommentRequest(rep.url,
                                             UPDATE_COMMENT_FOR_RAISED_ERRORS_BODY)>>
              /\ rep.end = "RuntimeError"

\* A 422 error that is not subscriptable was reported and the comment now
\* holds the generic body.
C13_Witness ==
    /\ rep.pc = "done"
    /\ rep.error.status = 422 /\ rep.error.shape = "plain"
    /\ rep.caught /\ rep.updated
    /\ comment.body = UPDATE_COMMENT_FOR_RAISED_ERRORS_BODY

\* C14: in get_latest_remote_commit_sha every upstream error other than the
\* empty-repository answer, an HTTP error answer of another status included,
\* is routed to the Failure Reporter (the comment at comment_url receives an
\* update request) before it reaches the caller, and the request is not
\* repeated.
C14_OtherErrorsAreReported ==
    (resolver.pc = "done"
        /\ resolver.result \in {"HTTPError", "RuntimeError", "ReporterError"}) =>
        /\ rep.caller = "get_latest_remote_commit_sha"
        /\ rep.attempted
        /\ rep.url = resolver.url
        /\ Len(resolver.events) >= 2
        /\ resolver.events[Len(resolver.events)] = "REPORT"
        /\ resolver.events[Len(resolver.events) - 1] = "GET"

\* C22: after a read with status 200 or 404, commit_changes_to_remote_branch
\* issues a PUT if and only if the patched text is not empty: an empty result
\* produces no write, a non-empty result equal to the baseline still does,
\* and the PUT carries the patched text.
C22_PutIffPatchedTextNonEmpty ==
    \A w \in Writers :
        (ReadOk(w) /\ ~batch[w].active) =>
            /\ rd[w].modified_text
                  = apply_patch(rd[w].original_text, call[w].diff_text)
            /\ pc[w] = "put" => rd[w].modified_text # <<>>
            /\ pc[w] = "done" =>
                  /\ put[w].sent <=> rd[w].modified_text # <<>>
                  /\ put[w].sent =>
                        B64Decode(put[w].content) = Utf8Encode(rd[w].modified_text)
                  /\ ~put[w].sent => outcome[w] = "returned"

\* A call whose patch left a non-empty file as it was has sent its PUT.
C22_Witness ==
    /\ pc[Caller] = "done"
    /\ rd[Caller].status = 200
    /\ rd[Caller].modified_text # <<>>
    /\ rd[Caller].modified_text = rd[Caller].original_text
    /\ put[Caller].sent

\* C19: one call of commit_changes_to_remote_branch is a single attempt: it
\* issues exactly one GET, then at most one PUT, and nothing after a PUT,
\* rejected or not.
OpsOf(l) == [k \in DOMAIN l |-> l[k].op]

C19_SingleAttempt ==
    \A w \in Writers :
        /\ pc[w] = "get" => log[w] = <<>>
        /\ pc[w] = "put" => OpsOf(log[w]) = <<"GET">>
        /\ pc[w] = "done" =>
              /\ OpsOf(log[w]) \in {<<"GET">>, <<"GET", "PUT">>}
              /\ put[w].sent <=> Len(log[w]) = 2
              /\ \A k \in DOMAIN log[w] : log[w][k].file = call[w].file_path

\* Both callers ended; the PUT of one was accepted and the PUT of the other
\* was rejected as a conflict, after which it sent nothing more.
C19_Witness ==
    /\ pc["w1"] = "done" /\ pc["w2"] = "done"
    /\ put["w1"].sent /\ put["w1"].accepted
    /\ put["w2"].sent /\ put["w2"].status = 409
    /\ OpsOf(log["w2"]) = <<"GET", "PUT">>

\* C17: commit_multiple_changes_to_remote_branch takes the diffs in list order,
\* one after the other: the requests of a batch are GET 1, at most one PUT 1,
\* GET 2, at most one PUT 2, ..., each for the file of its diff; no write goes
\* back to an earlier diff, so what an accepted PUT wrote stays in the store
\* unless a later diff of the list writes the same file.
C17_InOrderNoRollback ==
    \A w \in Writers :
        batch[w].active =>
            LET l == log[w]
                diffs == batch[w].diffs
            IN
            /\ \A k \in DOMAIN l :
                  /\ l[k].i \in DOMAIN diffs
                  /\ l[k].file = extract_file_name(diffs[l[k].i])
            /\ l # <<>> => (l[1].op = "GET" /\ l[1].i = 1)
            /\ \A k \in 1..(Len(l) - 1) :
                  /\ l[k + 1].op = "PUT" => (l[k].op = "GET" /\ l[k].i = l[k + 1].i)
                  /\ l[k + 1].op = "GET" => l[k + 1].i = l[k].i + 1
            /\ \A k \in DOMAIN l :
                  (/\ l[k].op = "PUT" /\ l[k].accepted
                   /\ \A m \in DOMAIN l :
                         (m > k /\ l[m].op = "PUT" /\ l[m].accepted)
                             => l[m].file # l[k].file)
                  => store[call[w].branch][l[k].file]
                        = FileOf(B64Decode(l[k].content))

\* A batch of two diffs for two files ended: the first commit was accepted,
\* the second failed, and the first file is still as committed.
C17_Witness ==
    LET l == log[Caller] IN
    /\ pc[Caller] = "done" /\ batch[Caller].active
    /\ failedAt[Caller] = 2
    /\ Len(l) >= 3
    /\ l[2].op = "PUT" /\ l[2].accepted
    /\ l[3].op = "GET" /\ l[3].file # l[2].file
    /\ store[call[Caller].branch][l[2].file] = FileOf(B64Decode(l[2].content))

\* C20: when the first ref request answers 409 "Git Repository is empty." and
\* the bootstrap succeeds, initialize_repo runs exactly once, between the
\* first and the second ref request, and the call returns the commit sha the
\* second response carries.
BootstrapSucceeded ==
    resolver.pushes # <<>> /\ resolver.pushes[1] = "pushed"

C20_OneBootstrapThenSha ==
    BootstrapSucceeded =>
        LET e == resolver.events IN
        /\ resolver.bootstraps = 1
        /\ Len(e) >= 2 /\ e[1] = "GET" /\ e[2] = "INIT"
        /\ \A k \in DOMAIN e : k > 2 => e[k] # "INIT"
        /\ Len(e) >= 3 => e[3] = "GET"
        /\ \A k \in DOMAIN e : k > 3 => e[k] = "REPORT"
        /\ resolver.pc = "request" => Len(e) = 2
        /\ (resolver.pc = "done" /\ resolver.status = 200 /\ Len(e) = 3) =>
              (resolver.result = "sha" /\ resolver.sha = repo.sha)
        /\ (resolver.pc = "done" /\ resolver.result = "sha") =>
              (e = <<"GET", "INIT", "GET">> /\ resolver.sha = InitialCommitSha)

\* The repository was empty, one bootstrap pushed the initial commit and the
\* call returned its sha.
C20_Witness ==
    /\ resolver.pc = "done"
    /\ resolver.events = <<"GET", "INIT", "GET">>
    /\ resolver.pushes = <<"pushed">>
    /\ resolver.result = "sha"
    /\ resolver.sha = InitialCommitSha
    /\ repo = RepoAt(InitialCommitSha)

\* C21: get_latest_remote_commit_sha never returns normally without a commit
\* sha: it returns the sha of a successful ref response or it raises, also
\* when the comment update of the Failure Reporter fails or the comment url
\* is invalid.
RefErrors == {"HTTPError", "CommandError", "RuntimeError", "ReporterError"}

C21_ShaOrRaise ==
    resolver.pc = "done" =>
        /\ resolver.result \in {"sha"} \cup RefErrors
        /\ resolver.result = "sha" =>
              /\ resolver.sha # NoSha
              /\ resolver.status = 200
              /\ ~repo.empty /\ resolver.sha = repo.sha
        /\ resolver.result \in RefErrors => resolver.sha = NoSha
        /\ resolver.events[Len(resolver.events)] = "REPORT" =>
              /\ rep.attempted
              /\ resolver.result \in RefErrors

\* The ref request failed, the comment url was invalid and the comment update
\* failed: the call still ended by raising.
C21_Witness ==
    /\ resolver.pc = "done"
    /\ resolver.url = "invalid"
    /\ rep.caller = "get_latest_remote_commit_sha"
    /\ rep.attempted /\ ~rep.updated
    /\ resolver.result \in RefErrors

-----------------------------------------------------------------------------
(* Claims about the credential broker and the signature verifier            *)

\* C15: when the token-issuance endpoint answers with a non-2xx status,
\* get_installation_access_token raises to its caller an error carrying that
\* status; it does not complete normally without a token.
C15_NonSuccessIsSurfaced ==
    (auth.pc = "done" /\ ~(auth.status >= 200 /\ auth.status < 300)) =>
        /\ auth.outcome = "raised"
        /\ auth.errorStatus = auth.status

\* C16 as stated: the verification succeeds exactly when the header is
\* present and equals "sha256=" + hex(HMAC-SHA256(secret, body)); an absent
\* header raises the missing-signature error and every other header value
\* raises the invalid-signature error.
IsExpectedHeader ==
    /\ hook.header.present
    /\ hook.header.prefix = "sha256="
    /\ hook.header.hex.digest.key = hook.secret
    /\ hook.header.hex.digest.msg = hook.body
    /\ hook.header.hex.case = "lower"
    /\ hook.header.suffix = ""

C18_AssertionClaims ==
    /\ \A i \in 1..Len(jwts) :
          /\ jwts[i].payload.exp - jwts[i].payload.iat = 600
          /\ jwts[i].payload.iss = GITHUB_APP_ID
    /\ \A i \in 1..Len(jwts), j \in 1..Len(jwts) :
          i < j => jwts[i].payload.iat <= jwts[j].payload.iat

\* Three assertions were minted, two in the same second and one later.
C18_Witness ==
    /\ Len(jwts) = 3
    /\ jwts[1].payload.iat = jwts[2].payload.iat
    /\ jwts[2].payload.iat < jwts[3].payload.iat

-----------------------------------------------------------------------------
(* Claims about the issue lister                                            *)

AllLabelled(issues) == \A k \in DOMAIN issues : ~LacksProductLabel(issues[k])

\* Pages 1, 2, 3, ... are requested in this order, and page n+1 only after a
\* non-empty page n whose issues all carry the PRODUCT_ID label.
PagesInOrder ==
    /\ \A k \in DOMAIN lister.requested : lister.requested[k] = k
    /\ \A k \in 1..(Len(lister.requested) - 1) :
          /\ lister.served[k].status = 200
          /\ lister.served[k].issues # <<>>
          /\ AllLabelled(lister.served[k].issues)

\* The issue returned is the first one, in the order served, without the label.
ReturnsFirstUnlabelled ==
    (lister.pc = "done" /\ lister.result = "issue") =>
        LET n == Len(lister.requested)
            issues == lister.served[n].issues
        IN
        /\ lister.issue.page = n
        /\ lister.issue.at \in DOMAIN issues
        /\ lister.issue.labels = issues[lister.issue.at]
        /\ LacksProductLabel(lister.issue.labels)
        /\ \A k \in 1..(lister.issue.at - 1) : ~LacksProductLabel(issues[k])

\* None is returned exactly when the last page requested came back empty.
NoneExactlyOnEmptyPage ==
    lister.pc = "done" =>
        LET last == lister.served[Len(lister.served)] IN
        (lister.outcome = "returned" /\ lister.result = "None")
            <=> (last.status = 200 /\ last.issues = <<>>)

\* C23: get_oldest_unassigned_open_issue requests pages 1, 2, 3, ... in
\* increasing order, page n+1 only when page n is non-empty and every issue
\* on it carries the PRODUCT_ID label; it returns the first issue in that
\* order lacking the label, returns None exactly when it reaches an empty
\* page, and terminates once the upstream serves an unlabelled issue or an
\* empty page.
C23_PagesInOrderUntilFound ==
    /\ [](PagesInOrder /\ ReturnsFirstUnlabelled /\ NoneExactlyOnEmptyPage)
    /\ (lister.pc = "request") ~> (lister.pc = "done")

====
